---------------------------- MODULE Spec2Model ----------------------------
(***************************************************************************)
(* A model of src/solar_physics.py: the solar-geometry functions and the   *)
(* daily integration loop of daily_radiation.                              *)
(*                                                                         *)
(* Numbers.  The program computes in IEEE doubles; the model computes in   *)
(* fixed point.  Angles are integers in hundredths of a degree (CD per     *)
(* degree), values of sin/cos/tan and ratios are integers scaled by SCALE, *)
(* power is held in hundredths of W/m^2, energy in hundredths of Wh/m^2.   *)
(* Every product is rounded to nearest (half away from zero, RoundDiv) as  *)
(* the floating-point operations are, only at a coarser resolution.        *)
(*                                                                         *)
(* np.radians(90.0) is the double below pi/2, so np.cos(np.radians(90.0))  *)
(* is 6.1e-17 and not 0, np.tan(np.radians(90.0)) is 1.6e16 and finite,    *)
(* and likewise at the other zeros of sine and cosine except sin(0.0).     *)
(* The model keeps this: at such an angle SinDeg and CosDeg return one     *)
(* unit in the last place with the sign the double has.                    *)
(***************************************************************************)
EXTENDS Integers, Sequences, FiniteSets

VARIABLES
    frame,      \* frame[f]: the locals of call frame f of daily_radiation
    call,       \* the last direct call of one of the four angle functions
    globals     \* the module-level names of solar_physics.py

vars == <<frame, call, globals>>

\* units of the fixed-point representation
CD == 100
SCALE == 10000
MaxProd == 2000000000
\* what a product too large for the representation saturates to
Huge == MaxProd \div SCALE

\* module constants (solar_physics.py lines 15-17)
LATITUDE_SHENZHEN == 2250
SOLAR_CONSTANT == 1361
ATMOSPHERIC_TRANSMITTANCE == 7000

\* bounds of the explored input grids
LatGrid == 6
HourGrid == 12
ElevGrid == 6
MaxDayIndex == 6

Abs(x) == IF x < 0 THEN -x ELSE x
Sign(x) == IF x < 0 THEN -1 ELSE IF x > 0 THEN 1 ELSE 0
Min(a, b) == IF a < b THEN a ELSE b
Max(a, b) == IF a > b THEN a ELSE b

\* a / b rounded to nearest, halves away from zero (b > 0)
RoundDiv(a, b) == Sign(a) * ((Abs(a) + b \div 2) \div b)

\* smallest integer >= a / b (b > 0), as math.ceil does
CeilDiv(a, b) == -((-a) \div b)

\* np.clip(x, lo, hi)
Clip(x, lo, hi) == Max(lo, Min(hi, x))

\* a * b of two scaled values; a product out of range saturates
FMul(a, b) ==
    IF a = 0 \/ b = 0 THEN 0
    ELSE IF Abs(a) > MaxProd \div Abs(b) THEN Sign(a) * Sign(b) * Huge
    ELSE RoundDiv(a * b, SCALE)

\* a / b of two scaled values, b # 0
FDiv(a, b) ==
    IF Abs(a) > MaxProd \div SCALE THEN Sign(a) * Sign(b) * Huge
    ELSE Sign(b) * RoundDiv(a * SCALE, Abs(b))

\* SCALE * sin(d degrees), d = 0..90, at index d + 1
SinTab ==
    << 0, 175, 349, 523, 698, 872, 1045, 1219, 1392, 1564, 1736, 1908, 2079,
       2250, 2419, 2588, 2756, 2924, 3090, 3256, 3420, 3584, 3746, 3907, 4067, 4226,
       4384, 4540, 4695, 4848, 5000, 5150, 5299, 5446, 5592, 5736, 5878, 6018, 6157,
       6293, 6428, 6561, 6691, 6820, 6947, 7071, 7193, 7314, 7431, 7547, 7660, 7771,
       7880, 7986, 8090, 8192, 8290, 8387, 8480, 8572, 8660, 8746, 8829, 8910, 8988,
       9063, 9135, 9205, 9272, 9336, 9397, 9455, 9511, 9563, 9613, 9659, 9703, 9744,
       9781, 9816, 9848, 9877, 9903, 9925, 9945, 9962, 9976, 9986, 9994, 9998, 10000 >>

\* sine of a first-quadrant angle a (0 .. 90 CD), interpolated in the table
SinQ(a) ==
    LET d == a \div CD
        r == a % CD
    IN  IF r = 0 THEN SinTab[d + 1]
        ELSE SinTab[d + 1] + RoundDiv((SinTab[d + 2] - SinTab[d + 1]) * r, CD)

\* sine of m in 0 .. 360 CD - 1, zero at the table's zeros
SinTurn(m) ==
    IF m <= 90 * CD THEN SinQ(m)
    ELSE IF m <= 180 * CD THEN SinQ(180 * CD - m)
    ELSE IF m <= 270 * CD THEN -SinQ(m - 180 * CD)
    ELSE -SinQ(360 * CD - m)

\* np.sin(np.radians(a)), a > 0: the double for a multiple of 180 degrees
\* lies below the multiple of pi, which leaves a residue of that sign
SinUp(a) ==
    LET m == a % (360 * CD)
    IN  IF m = 180 * CD THEN 1 ELSE IF m = 0 THEN -1 ELSE SinTurn(m)

\* np.sin(np.radians(a)) for an angle a in hundredths of a degree
SinDeg(a) == IF a = 0 THEN 0 ELSE IF a > 0 THEN SinUp(a) ELSE -SinUp(-a)

\* np.cos(np.radians(a)): never 0, see the module comment
CosDeg(a) ==
    LET m == Abs(a) % (360 * CD)
    IN  IF m = 90 * CD THEN 1
        ELSE IF m = 270 * CD THEN -1
        ELSE SinTurn((m + 90 * CD) % (360 * CD))

\* np.tan(np.radians(a))
TanDeg(a) == FDiv(SinDeg(a), CosDeg(a))

RECURSIVE TabFloor(_, _, _)
\* the largest d in lo..hi with SinTab[d + 1] <= v, by bisection (SinTab[lo + 1] <= v)
TabFloor(v, lo, hi) ==
    IF lo = hi THEN lo
    ELSE LET mid == (lo + hi + 1) \div 2
         IN  IF SinTab[mid + 1] <= v THEN TabFloor(v, mid, hi) ELSE TabFloor(v, lo, mid - 1)

\* np.degrees(np.arcsin(v)) for 0 <= v <= SCALE: the table read backwards
ArcSinQ(v) ==
    LET d == TabFloor(v, 0, 90)
    IN  IF d = 90 THEN 90 * CD
        ELSE d * CD + RoundDiv(CD * (v - SinTab[d + 1]), SinTab[d + 2] - SinTab[d + 1])

\* np.degrees(np.arcsin(v)), -SCALE <= v <= SCALE
ArcSinDeg(v) == Sign(v) * ArcSinQ(Abs(v))

\* np.degrees(np.arccos(v)), -SCALE <= v <= SCALE
ArcCosDeg(v) == 90 * CD - ArcSinDeg(v)

\* ATMOSPHERIC_TRANSMITTANCE ** (j / 16), j = 0..16, at index j + 1
PowTab ==
    << 10000, 9780, 9564, 9353, 9147, 8945, 8748, 8555, 8367,
       8182, 8002, 7825, 7653, 7484, 7319, 7158, 7000 >>

RECURSIVE PowInt(_, _)
\* base ** q for an integer q >= 0, by squaring
PowInt(base, q) ==
    IF q = 0 THEN SCALE
    ELSE IF q % 2 = 0 THEN PowInt(FMul(base, base), q \div 2)
    ELSE FMul(base, PowInt(FMul(base, base), q \div 2))

\* base ** f for a scaled fraction 0 <= f < SCALE (base is the transmittance)
PowFrac(f) ==
    LET j == (f * 16) \div SCALE
        r == (f * 16) % SCALE
    IN  PowTab[j + 1] + RoundDiv((PowTab[j + 2] - PowTab[j + 1]) * r, SCALE)

\* base ** am for a scaled exponent am; x ** inf is 0 for 0 <= x < 1
Pow(base, am) ==
    IF am >= Huge * SCALE THEN 0
    ELSE IF am < 0 THEN Huge
    ELSE FMul(PowInt(base, am \div SCALE), PowFrac(am % SCALE))

(***************************************************************************)
(* The functions of solar_physics.py.                                      *)
(***************************************************************************)

\* solar_declination(n)
solar_declination(n) ==
    LET angle == RoundDiv(360 * CD * (n - 81), 365)
    IN  RoundDiv(2345 * SinDeg(angle), SCALE)

\* mutant: the hour angle enters through its sine
SinAlphaSineHour(lat, declination, hour_angle) ==
    Clip(FMul(SinDeg(lat), SinDeg(declination))
           + FMul(FMul(CosDeg(lat), CosDeg(declination)), SinDeg(hour_angle)),
         -SCALE, SCALE)

\* the value np.arcsin is applied to in solar_elevation_angle
SinAlpha(lat, declination, hour_angle) ==
    Clip(FMul(SinDeg(lat), SinDeg(declination))
           + FMul(FMul(CosDeg(lat), CosDeg(declination)), CosDeg(hour_angle)),
         -SCALE, SCALE)

\* solar_elevation_angle(lat, declination, hour_angle)
solar_elevation_angle(lat, declination, hour_angle) ==
    ArcSinDeg(SinAlpha(lat, declination, hour_angle))

\* the guard "np.cos(elv_rad) == 0" of solar_azimuth_angle
ZenithGuard(elevation) == CosDeg(elevation) = 0

\* cos_gamma of solar_azimuth_angle after np.clip
CosGamma(lat, declination, elevation) ==
    LET num == SinDeg(elevation) * SinDeg(lat) - SinDeg(declination) * SCALE
        den == CosDeg(elevation) * CosDeg(lat)
        k   == den \div (MaxProd \div SCALE) + 1
    IN  IF num >= den THEN SCALE
        ELSE IF num <= -den THEN -SCALE
        ELSE RoundDiv((num \div k) * SCALE, den \div k)

\* the sign rule of solar_azimuth_angle: "if hour_angle < 0: gamma = -gamma"
SignByHour(gamma, hour_angle) == IF hour_angle < 0 THEN -gamma ELSE gamma

\* solar_azimuth_angle(lat, declination, elevation, hour_angle)
solar_azimuth_angle(lat, declination, elevation, hour_angle) ==
    IF ZenithGuard(elevation) THEN 0
    ELSE SignByHour(ArcCosDeg(CosGamma(lat, declination, elevation)), hour_angle)

\* mutant: sine and cosine of the tilt exchanged
CosThetaSwapped(elevation, azimuth, panel_tilt, panel_azimuth) ==
    FMul(SinDeg(elevation), SinDeg(panel_tilt))
      + FMul(FMul(CosDeg(elevation), CosDeg(panel_tilt)),
             CosDeg(azimuth - panel_azimuth))

\* cos_theta of incident_angle before np.clip
CosTheta(elevation, azimuth, panel_tilt, panel_azimuth) ==
    FMul(SinDeg(elevation), CosDeg(panel_tilt))
      + FMul(FMul(CosDeg(elevation), SinDeg(panel_tilt)),
             CosDeg(azimuth - panel_azimuth))

\* mutant: clipped to [-1, 1] as the other two functions clip
ClipThetaSymmetric(c) == Clip(c, -SCALE, SCALE)

\* the np.clip of incident_angle
ClipTheta(c) == Clip(c, 0, SCALE)

\* incident_angle(elevation, azimuth, panel_tilt, panel_azimuth)
incident_angle(elevation, azimuth, panel_tilt, panel_azimuth) ==
    ArcCosDeg(ClipTheta(CosTheta(elevation, azimuth, panel_tilt, panel_azimuth)))

(***************************************************************************)
(* daily_radiation, one step per loop iteration.                           *)
(***************************************************************************)

\* "step = 2.5" and the 15 degrees of hour angle per hour of "step / 15.0"
STEP == 250
HOUR == 1500

\* mutant: the tests of the first two branches exchanged
PolarNightSwapped(x) == x <= -SCALE

\* the test of the first branch: "-tan_lat * tan_dec >= 1"
PolarNight(x) == x >= SCALE

\* the test of the second branch: "-tan_lat * tan_dec <= -1"
MidnightSun(x) == x <= -SCALE

\* mutant: arcsine for arccosine
StandardSunsetArcSin(x) == ArcSinDeg(x)

\* np.degrees(np.arccos(-tan_lat * tan_dec)) of the third branch
StandardSunset(x) == ArcCosDeg(x)

\* "-tan_lat * tan_dec"
SunsetCos(lat, declination) == FMul(-TanDeg(lat), TanDeg(declination))

\* sunset_hour as the second and third branch set it
SunsetHour(x) == IF MidnightSun(x) THEN 180 * CD ELSE StandardSunset(x)

\* mutant: the end point included
ArangeLenInclusive(start, stop, step) == Max(0, (stop - start) \div step + 1)

\* len(np.arange(start, stop, step)): ceil((stop - start) / step)
ArangeLen(start, stop, step) == Max(0, CeilDiv(stop - start, step))

\* np.arange(start, stop, step)[i]
ArangeAt(start, step, i) == start + i * step

\* mutant: the total is a name that outlives the call and is never reset
InitialTotalKept(fr) == fr.total_radiation

\* "total_radiation = 0"; fr is the frame the call starts in
InitialTotal(fr) == 0

\* mutant: the sun exactly on the horizon is let through
ElevationGuardInclusive(elevation) == elevation >= 0

\* "if elevation > 0"
ElevationGuard(elevation) == elevation > 0

\* mutant: grazing and back-lit incidence let through
ThetaGuardInclusive(theta) == theta <= 90 * CD

\* "if theta < 90"
ThetaGuard(theta) == theta < 90 * CD

\* "1 / np.sin(np.radians(elevation))"; 1 / 0.0 is inf in numpy
AirMass(divisor) ==
    IF divisor = 0 THEN Huge * SCALE ELSE Sign(divisor) * RoundDiv(SCALE * SCALE, Abs(divisor))

\* "SOLAR_CONSTANT * (ATMOSPHERIC_TRANSMITTANCE ** air_mass) * np.cos(np.radians(theta))"
Intensity(g, air_mass, theta) ==
    FMul(RoundDiv(g.SOLAR_CONSTANT * Pow(g.ATMOSPHERIC_TRANSMITTANCE, air_mass), SCALE \div CD),
         CosDeg(theta))

\* "intensity * (step / 15.0)"
Increment(intensity) == RoundDiv(intensity * STEP, HOUR)

NoSample ==
    [h |-> 0, elevation |-> 0, entered |-> FALSE, azimuth |-> 0, theta |-> 0,
     contributed |-> FALSE, divisor |-> 0, air_mass |-> 0, intensity |-> 0]

\* the body of the loop at hour angle h
Sample(g, lat, declination, tilt, panel_azimuth, h) ==
    LET elevation == solar_elevation_angle(lat, declination, h)
        azimuth   == solar_azimuth_angle(lat, declination, elevation, h)
        theta     == incident_angle(elevation, azimuth, tilt, panel_azimuth)
        divisor   == SinDeg(elevation)
        air_mass  == AirMass(divisor)
    IN  IF ~ElevationGuard(elevation)
        THEN [NoSample EXCEPT !.h = h, !.elevation = elevation]
        ELSE IF ~ThetaGuard(theta)
        THEN [NoSample EXCEPT !.h = h, !.elevation = elevation, !.entered = TRUE,
                              !.azimuth = azimuth, !.theta = theta]
        ELSE [h |-> h, elevation |-> elevation, entered |-> TRUE, azimuth |-> azimuth,
              theta |-> theta, contributed |-> TRUE, divisor |-> divisor,
              air_mass |-> air_mass, intensity |-> Intensity(g, air_mass, theta)]

Frames == {1, 2}

FreshFrame(pc) ==
    [pc |-> pc, lat |-> 0, n |-> 0, tilt |-> 0, panel_azimuth |-> 0,
     declination |-> 0, x |-> 0, branch |-> "none", sunset_hour |-> 0,
     len |-> 0, i |-> 0, smp |-> NoSample, total_radiation |-> 0, ret |-> 0]

Globals ==
    [LATITUDE_SHENZHEN |-> LATITUDE_SHENZHEN, SOLAR_CONSTANT |-> SOLAR_CONSTANT,
     ATMOSPHERIC_TRANSMITTANCE |-> ATMOSPHERIC_TRANSMITTANCE]

NoCall ==
    [fn |-> "none", n |-> 0, lat |-> 0, declination |-> 0, hour_angle |-> 0,
     elevation |-> 0, azimuth |-> 0, panel_tilt |-> 0, panel_azimuth |-> 0, out |-> 0]

\* the frame of daily_radiation(lat, n, tilt, panel_azimuth) after lines 93-111;
\* old is what the frame held before the call
Entered(old, lat, n, tilt, panel_azimuth) ==
    LET declination == solar_declination(n)
        x  == SunsetCos(lat, declination)
        sh == SunsetHour(x)
        in == [FreshFrame("loop") EXCEPT !.lat = lat, !.n = n, !.tilt = tilt,
                   !.panel_azimuth = panel_azimuth, !.declination = declination, !.x = x]
    IN  IF PolarNight(x)
        THEN [in EXCEPT !.pc = "done", !.branch = "polar_night", !.ret = 0]
        ELSE [in EXCEPT !.branch = IF MidnightSun(x) THEN "midnight_sun" ELSE "standard",
                        !.sunset_hour = sh,
                        !.len = ArangeLen(-sh, sh, STEP),
                        !.total_radiation = InitialTotal(old)]

\* the frame after one more iteration of the loop
Iterated(g, fr) ==
    LET h == ArangeAt(-fr.sunset_hour, STEP, fr.i)
        s == Sample(g, fr.lat, fr.declination, fr.tilt, fr.panel_azimuth, h)
    IN  [fr EXCEPT !.i = fr.i + 1, !.smp = s,
                   !.total_radiation = IF s.contributed
                                       THEN fr.total_radiation + Increment(s.intensity)
                                       ELSE fr.total_radiation]

\* a call of daily_radiation(lat, n, tilt, panel_azimuth) runs up to its loop
Enter(f, lat, n, tilt, panel_azimuth) ==
    /\ frame[f].pc \in {"idle", "done"}
    /\ \E new \in {Entered(frame[f], lat, n, tilt, panel_azimuth)} :
           frame' = [frame EXCEPT ![f] = new]
    /\ UNCHANGED <<call, globals>>

\* one iteration of "for h in np.arange(-sunset_hour, sunset_hour, step)"
Iterate(f) ==
    /\ frame[f].pc = "loop"
    /\ frame[f].i < frame[f].len
    /\ \E new \in {Iterated(globals, frame[f])} :
           frame' = [frame EXCEPT ![f] = new]
    /\ UNCHANGED <<call, globals>>

\* "return total_radiation" once the loop is exhausted
Return(f) ==
    /\ frame[f].pc = "loop"
    /\ frame[f].i = frame[f].len
    /\ frame' = [frame EXCEPT ![f] =
           [frame[f] EXCEPT !.pc = "done", !.ret = frame[f].total_radiation]]
    /\ UNCHANGED <<call, globals>>

(***************************************************************************)
(* Inputs.                                                                 *)
(***************************************************************************)

Grid(lo, hi, parts) == {lo + k * ((hi - lo) \div parts) : k \in 0..parts}

DayTab == <<81, 172, 355, 1, 264, 100, 200, 300>>
Days == {DayTab[k] : k \in 1..MaxDayIndex}

Latitudes == Grid(-90 * CD, 90 * CD, LatGrid) \cup {-90 * CD, 90 * CD, LATITUDE_SHENZHEN, 70 * CD, -66 * CD}
\* <<tilt, panel_azimuth>>: flat, tilted south, upright facing east, upright facing north
Orientations == {<<0, 0>>, <<LATITUDE_SHENZHEN, 0>>, <<90 * CD, -90 * CD>>, <<90 * CD, 180 * CD>>}

\* one call of daily_radiation, from a fresh interpreter
Init ==
    /\ frame = [f \in Frames |-> FreshFrame(IF f = 1 THEN "idle" ELSE "off")]
    /\ call = NoCall
    /\ globals = Globals

FirstCall(f) ==
    /\ frame[f].pc = "idle"
    /\ \E lat \in Latitudes, n \in Days, o \in Orientations : Enter(f, lat, n, o[1], o[2])

Next == \E f \in Frames : FirstCall(f) \/ Iterate(f) \/ Return(f)

Spec == Init /\ [][Next]_vars

(***************************************************************************)
(* Two callers of daily_radiation, each calling again and again; their     *)
(* steps interleave in any order.                                          *)
(***************************************************************************)

CallInputs ==
    { <<LATITUDE_SHENZHEN, 172, 0, 0>>, <<-66 * CD, 172, LATITUDE_SHENZHEN, -90 * CD>>,
      <<70 * CD, 355, 0, 0>> }

InitCalls ==
    /\ frame = [f \in Frames |-> FreshFrame("idle")]
    /\ call = NoCall
    /\ globals = Globals

AnyCall(f) == \E a \in CallInputs : Enter(f, a[1], a[2], a[3], a[4])

NextCalls == \E f \in Frames : AnyCall(f) \/ Iterate(f) \/ Return(f)

SpecCalls == InitCalls /\ [][NextCalls]_vars

(***************************************************************************)
(* Direct calls of the angle functions.                                    *)
(***************************************************************************)

FnLatitudes == Grid(-90 * CD, 90 * CD, LatGrid) \cup {-90 * CD, 90 * CD, LATITUDE_SHENZHEN}
FnDeclinations == {solar_declination(n) : n \in Days} \cup {-2345, 2345}
FnHours == Grid(-180 * CD, 180 * CD, HourGrid) \cup {-180 * CD, -90 * CD, -STEP, 0, STEP, 90 * CD, 180 * CD}
FnElevations == Grid(-90 * CD, 90 * CD, ElevGrid) \cup {-90 * CD, -1, 0, 1, 1234, 8925, 90 * CD}
FnAzimuths == Grid(-180 * CD, 180 * CD, HourGrid) \cup {-90 * CD, 0, 90 * CD}
FnTilts == {0, LATITUDE_SHENZHEN, 45 * CD, 90 * CD}
FnPanelAzimuths == {0, -90 * CD, 90 * CD, 180 * CD}

\* what a direct call leaves: the function, its arguments and its result
Called(fn, args, out) == [args EXCEPT !.fn = fn, !.out = out]

CallDeclination(n) ==
    /\ call.fn = "none"
    /\ \E out \in {solar_declination(n)} :
           call' = Called("solar_declination", [NoCall EXCEPT !.n = n], out)
    /\ UNCHANGED <<frame, globals>>

CallElevation(lat, declination, hour_angle) ==
    /\ call.fn = "none"
    /\ \E out \in {solar_elevation_angle(lat, declination, hour_angle)} :
           call' = Called("solar_elevation_angle",
                          [NoCall EXCEPT !.lat = lat, !.declination = declination,
                                         !.hour_angle = hour_angle], out)
    /\ UNCHANGED <<frame, globals>>

CallAzimuth(lat, declination, elevation, hour_angle) ==
    /\ call.fn = "none"
    /\ \E out \in {solar_azimuth_angle(lat, declination, elevation, hour_angle)} :
           call' = Called("solar_azimuth_angle",
                          [NoCall EXCEPT !.lat = lat, !.declination = declination,
                                         !.elevation = elevation, !.hour_angle = hour_angle], out)
    /\ UNCHANGED <<frame, globals>>

CallIncident(elevation, azimuth, panel_tilt, panel_azimuth) ==
    /\ call.fn = "none"
    /\ \E out \in {incident_angle(elevation, azimuth, panel_tilt, panel_azimuth)} :
           call' = Called("incident_angle",
                          [NoCall EXCEPT !.elevation = elevation, !.azimuth = azimuth,
                                         !.panel_tilt = panel_tilt,
                                         !.panel_azimuth = panel_azimuth], out)
    /\ UNCHANGED <<frame, globals>>

InitFn ==
    /\ frame = [f \in Frames |-> FreshFrame("off")]
    /\ call = NoCall
    /\ globals = Globals

\* one direct call, from a fresh interpreter
Declination == call.fn = "none" /\ \E n \in Days : CallDeclination(n)

Elevation ==
    /\ call.fn = "none"
    /\ \E lat \in FnLatitudes, d \in FnDeclinations, h \in FnHours : CallElevation(lat, d, h)

Azimuth ==
    /\ call.fn = "none"
    /\ \E lat \in FnLatitudes, d \in FnDeclinations, e \in FnElevations, h \in FnHours :
           CallAzimuth(lat, d, e, h)

Incident ==
    /\ call.fn = "none"
    /\ \E e \in FnElevations, a \in FnAzimuths, t \in FnTilts, p \in FnPanelAzimuths :
           CallIncident(e, a, t, p)

NextFn == Declination \/ Elevation \/ Azimuth \/ Incident

SpecFn == InitFn /\ [][NextFn]_vars

(***************************************************************************)
(* The claims.                                                             *)
(***************************************************************************)

\* frame f is inside a call or has returned from one
Running(f) == frame[f].pc \in {"loop", "done"}

\* this step is one loop iteration of frame f
IterationOf(f) ==
    /\ frame[f].pc = "loop"
    /\ frame'[f].pc = "loop"
    /\ frame'[f].i = frame[f].i + 1

\* C1 (state part): the running total and the returned value are never
\* negative, and when -tan(lat)*tan(declination) >= 1 the call has returned
\* 0 at once, with no sample taken.
C1_State ==
    \A f \in Frames :
        /\ frame[f].total_radiation >= 0
        /\ frame[f].ret >= 0
        /\ Running(f) /\ frame[f].branch # "polar_night" /\ frame[f].i = 0
               => frame[f].total_radiation = 0
        /\ Running(f) /\ frame[f].x >= SCALE
               => /\ frame[f].pc = "done"
                  /\ frame[f].ret = 0
                  /\ frame[f].i = 0
                  /\ frame[f].smp = NoSample

\* C1 (step part): no loop iteration decreases the running total, and the
\* value returned is the total reached.
C1_Step ==
    \A f \in Frames :
        /\ IterationOf(f) => frame'[f].total_radiation >= frame[f].total_radiation
        /\ frame[f].pc = "loop" /\ frame'[f].pc = "done"
               => frame'[f].ret = frame[f].total_radiation

\* C1: daily_radiation returns a value >= 0 (the running total starts at 0
\* and never decreases across loop iterations) and returns exactly 0,
\* without taking any sample, whenever the polar-night condition holds.
C1_NonNegative == []C1_State /\ [][C1_Step]_vars

\* C1 witness: a call under the polar-night condition has returned 0.
C1_Witness ==
    \E f \in Frames :
        /\ frame[f].pc = "done"
        /\ frame[f].x >= SCALE
        /\ frame[f].ret = 0
        /\ frame[f].i = 0

\* what the sine/arccosine round trip may lose: half a degree, the half
\* spacing of the sine table
RoundTrip == CD \div 2

\* the last direct call was incident_angle with a flat, south-facing panel
FlatCall ==
    /\ call.fn = "incident_angle"
    /\ call.panel_tilt = 0
    /\ call.panel_azimuth = 0

\* C2 as stated: incident_angle with panel_tilt = 0 and panel_azimuth = 0
\* returns exactly 90 - elevation for every elevation in [-90, 90].
C2_Original == FlatCall => call.out = 90 * CD - call.elevation

\* C2 amended: with panel_tilt = 0 and panel_azimuth = 0 the result is
\* arccos(max(sin(elevation), 0)): exactly 90 for every elevation <= 0,
\* exactly 0 at elevation 90, and 90 - elevation up to rounding between.
C2_FlatPanel ==
    FlatCall =>
        /\ call.out = ArcCosDeg(Max(SinDeg(call.elevation), 0))
        /\ call.elevation <= 0 => call.out = 90 * CD
        /\ call.elevation = 90 * CD => call.out = 0
        /\ call.elevation >= 0
               => Abs(call.out - (90 * CD - call.elevation)) <= RoundTrip

\* C2 witness: a flat panel under a sun above the horizon.
C2_Witness ==
    /\ FlatCall
    /\ call.elevation > 0
    /\ call.elevation < 90 * CD
    /\ call.azimuth # 0
    /\ call.out = 90 * CD - call.elevation

\* C3: incident_angle returns a value in [0, 90] for every input; when the
\* unclamped cos(theta) is negative the result is exactly 90.
C3_IncidenceRange ==
    call.fn = "incident_angle" =>
        /\ call.out >= 0
        /\ call.out <= 90 * CD
        /\ CosTheta(call.elevation, call.azimuth, call.panel_tilt, call.panel_azimuth) < 0
               => call.out = 90 * CD

\* C3 witness: the sun behind the plane of a tilted panel.
C3_Witness ==
    /\ call.fn = "incident_angle"
    /\ call.elevation > 0
    /\ CosTheta(call.elevation, call.azimuth, call.panel_tilt, call.panel_azimuth) < 0
    /\ call.out = 90 * CD

\* cos(elevation) = 0: the sun at the zenith or the nadir
AtZenith(elevation) == Abs(elevation) = 90 * CD

\* the part of C4 away from the zenith: magnitude in [0, 180], sign by the
\* hour angle alone
AzimuthRangeAndSign ==
    call.fn = "solar_azimuth_angle" =>
        /\ Abs(call.out) <= 180 * CD
        /\ call.hour_angle < 0 => call.out <= 0
        /\ call.hour_angle >= 0 => call.out >= 0

\* C4: solar_azimuth_angle returns 0 when cos(elevation) = 0; otherwise its
\* magnitude is in [0, 180], it is <= 0 when hour_angle < 0 and >= 0 when
\* hour_angle >= 0, for every latitude in [-90, 90], the poles included.
C4_Azimuth ==
    call.fn = "solar_azimuth_angle" =>
        IF AtZenith(call.elevation) THEN call.out = 0 ELSE AzimuthRangeAndSign

\* C5: solar_elevation_angle(lat, dec, H) lies in [-90, 90] and is at most
\* solar_elevation_angle(lat, dec, 0).
C5_NoonIsMaximum ==
    call.fn = "solar_elevation_angle" =>
        /\ call.out >= -90 * CD
        /\ call.out <= 90 * CD
        /\ call.out <= solar_elevation_angle(call.lat, call.declination, 0)

\* C5 witness: away from noon the sun stands strictly lower.
C5_Witness ==
    /\ call.fn = "solar_elevation_angle"
    /\ call.hour_angle # 0
    /\ call.out < solar_elevation_angle(call.lat, call.declination, 0)
    /\ call.out > 0

\* the arguments of the call frame f is in
Args(f) == <<frame[f].lat, frame[f].n, frame[f].tilt, frame[f].panel_azimuth>>

C7_SunsetCases ==
    \A f \in Frames : Running(f) =>
        LET fr == frame[f] IN
        /\ fr.x = SunsetCos(fr.lat, solar_declination(fr.n))
        /\ fr.x >= SCALE
               => fr.branch = "polar_night" /\ fr.pc = "done" /\ fr.ret = 0 /\ fr.i = 0
        /\ fr.x <= -SCALE
               => fr.branch = "midnight_sun" /\ fr.sunset_hour = 180 * CD
        /\ fr.x > -SCALE /\ fr.x < SCALE
               => /\ fr.branch = "standard"
                  /\ fr.sunset_hour = ArcCosDeg(fr.x)
                  /\ fr.sunset_hour > 0
                  /\ fr.sunset_hour < 180 * CD
        /\ fr.x < SCALE
               => /\ fr.sunset_hour > 0
                  /\ fr.sunset_hour <= 180 * CD
                  /\ fr.i > 0 => fr.smp.h >= -fr.sunset_hour /\ fr.smp.h < fr.sunset_hour

\* C7 witness: a sample taken in the standard case.
C7_Witness ==
    \E f \in Frames :
        /\ frame[f].pc = "loop"
        /\ frame[f].branch = "standard"
        /\ frame[f].i > 0
        /\ frame[f].sunset_hour # 90 * CD

\* C8 (state part): the k-th sample is at -H_s + k*2.5 and below H_s, the
\* loop ends after ceil(2*H_s / 2.5) samples, at most 144, and the next
\* hour angle would not be below H_s.
C8_State ==
    \A f \in Frames : Running(f) /\ frame[f].branch # "polar_night" =>
        LET fr == frame[f] IN
        /\ fr.len = CeilDiv(2 * fr.sunset_hour, STEP)
        /\ fr.len <= 144
        /\ fr.i <= fr.len
        /\ fr.i > 0 => /\ fr.smp.h = -fr.sunset_hour + (fr.i - 1) * STEP
                       /\ fr.smp.h < fr.sunset_hour
        /\ fr.pc = "done" => /\ fr.i = fr.len
                             /\ fr.len >= 1
                             /\ -fr.sunset_hour + fr.len * STEP >= fr.sunset_hour

\* C8 (step part): samples come in increasing order, 2.5 degrees apart,
\* and a contributing sample adds irradiance * (2.5 / 15).
C8_Step ==
    \A f \in Frames : IterationOf(f) =>
        /\ frame[f].i = 0 => frame'[f].smp.h = -frame[f].sunset_hour
        /\ frame[f].i > 0 => frame'[f].smp.h = frame[f].smp.h + STEP
        /\ frame'[f].smp.contributed
               => frame'[f].total_radiation
                      = frame[f].total_radiation + RoundDiv(frame'[f].smp.intensity * STEP, HOUR)

\* C8: the loop visits exactly H = -H_s + k*2.5, k = 0, 1, ..., with
\* H < H_s, in increasing order; it ends after ceil(2*H_s / 2.5) samples,
\* at most 144; every contributing sample adds irradiance * (2.5 / 15).
C8_Samples == []C8_State /\ [][C8_Step]_vars

\* C8 witness: the midnight-sun case has taken all of its 144 samples.
C8_Witness ==
    \E f \in Frames :
        /\ frame[f].pc = "done"
        /\ frame[f].branch = "midnight_sun"
        /\ frame[f].i = 144
        /\ frame[f].smp.h = 180 * CD - STEP
        /\ frame[f].ret > 0

\* C9: a sample changes the running total only if its elevation is > 0 and
\* its incidence angle is < 90; any other sample leaves the total as it is.
C9_Frame ==
    [][\A f \in Frames : IterationOf(f) =>
          LET fr == frame[f]
              h  == ArangeAt(-fr.sunset_hour, STEP, fr.i)
              e  == solar_elevation_angle(fr.lat, fr.declination, h)
              t  == incident_angle(e, solar_azimuth_angle(fr.lat, fr.declination, e, h),
                                   fr.tilt, fr.panel_azimuth)
          IN  /\ frame'[f].total_radiation # fr.total_radiation => e > 0 /\ t < 90 * CD
              /\ e <= 0 \/ t >= 90 * CD => frame'[f].total_radiation = fr.total_radiation
      ]_vars

\* C9 witness: a sample with the sun up but behind the panel has left a
\* non-zero total as it was.
C9_Witness ==
    \E f \in Frames :
        /\ frame[f].pc = "loop"
        /\ frame[f].smp.entered
        /\ frame[f].smp.theta >= 90 * CD
        /\ ~frame[f].smp.contributed
        /\ frame[f].total_radiation > 0

\* C10: the air mass 1 / sin(elevation) is computed only at samples whose
\* elevation is > 0, so its divisor is strictly positive and the air mass
\* is never negative.
C10_AirMass ==
    \A f \in Frames : frame[f].smp.contributed =>
        /\ frame[f].smp.elevation > 0
        /\ frame[f].smp.divisor > 0
        /\ frame[f].smp.air_mass > 0

\* C10 witness: the air mass was computed for a sun just above the horizon.
C10_Witness ==
    \E f \in Frames :
        /\ frame[f].smp.contributed
        /\ frame[f].smp.elevation > 0
        /\ frame[f].smp.elevation < CD
        /\ frame[f].smp.divisor > 0

=============================================================================
